---- MODULE Spec2Model ----
(***************************************************************************)
(* Model of treble's HCI stream transports (treble/hci/transport/uart.py): *)
(* the frame codec of StreamTransport (_rx, _prepend_ind), the serial      *)
(* transport UART with its reader thread, and the network transport        *)
(* UARToTCP with its TCPProtocol callbacks.                                *)
(***************************************************************************)
EXTENDS Integers, Sequences, FiniteSets, TLC

\* ------------------------------------------------------------------ bounds
\* Longest payload of an inbound frame fed to the codec.
MaxPayload == 2
\* Number of concurrent callers (tasks of the event loop) of the public API.
NumTasks == 2
\* Number of API calls started over a run.
MaxCalls == 3
\* Number of chunks the device / socket delivers over a run.
MaxReads == 2
\* Number of _rx calls made on arbitrary bytes.
MaxRawCalls == 3

\* ------------------------------------------------------- packet indicators
IND_NONE == 0
IND_CMD == 1
IND_ACL == 2
IND_SCO == 3
IND_EVT == 4

\* UART.INIT_BAUDRATE
INIT_BAUDRATE == 9600

\* min(a, b)
Min(a, b) == IF a < b THEN a ELSE b

\* ------------------------------------------------------------------ packets
\* A Packet object: its class and its growable buffer `data`.  None is NoPkt.
NoPkt == [kind |-> "None", data |-> <<>>]
HCIACLData == [kind |-> "ACL", data |-> <<>>]
HCIEvt == [kind |-> "EVT", data |-> <<>>]

\* Packet.header_len(): the fixed header size of the variant (HCI: ACL has a
\* 2-byte handle and a 2-byte length, an event a code and a 1-byte length).
header_len(pkt) == IF pkt.kind = "ACL" THEN 4 ELSE 2

\* Packet.unpack_header() followed by Packet.payload_len(): the payload size
\* the accumulated header declares.
payload_len(pkt) ==
    IF pkt.kind = "ACL" THEN pkt.data[3] + 256 * pkt.data[4] ELSE pkt.data[2]

\* ------------------------------------------------------------------- state
VARIABLES
    \* StreamTransport's codec state
    rx_state, rx_pkt, rx_remain, rx_hdr,
    \* codec harness: the frames on the wire, how many bytes were fed, in how
    \* many _rx calls, what the last call did and the packets returned so far
    input, pos, ncalls, lastret, emitted,
    \* which class the transport object is: "UART" or "TCP"
    kind,
    \* self._open, self._closing, self._baudrate (0: not set)
    open, closing, baudrate,
    \* self._rx_q: the items of the asyncio.Queue (NoPkt is the None marker)
    rx_q,
    \* self._tx_lock: 0 when free, else the task holding it
    tx_lock,
    \* the bytes written to the serial device / socket, each tagged with the
    \* send() call that wrote it, the frame it belongs to and its index in it
    wire,
    \* UART: whether a reader thread is inside its loop, and how many reader
    \* threads have left the loop and not yet enqueued the marker
    rx_thread, exiting,
    \* the event loop's callbacks scheduled with call_soon_threadsafe
    ready,
    \* TRUE while an item put by the reader thread itself has not been
    \* noticed by the event loop (no wake-up was sent to it)
    silent,
    \* TCP: the number of live connections feeding TCPProtocol
    conns,
    \* the callers: where each is suspended, the call it is suspended in, the
    \* API call that ended last with its outcome, the bytes still to write
    pc, cur, ret, txd,
    \* counters of API calls started and of chunks delivered by the device
    ncall, nread,
    \* history: packets completed by the codec, items returned by recv()
    completed, delivered

codecVars == <<rx_state, rx_pkt, rx_remain, rx_hdr>>
harnessVars == <<input, pos, ncalls, lastret, emitted>>
transportVars == <<kind, open, closing, baudrate, rx_q, tx_lock, wire, rx_thread,
                   exiting, ready, silent, conns, pc, cur, ret, txd, ncall, nread,
                   completed, delivered>>
vars == <<codecVars, harnessVars, transportVars>>

\* The codec fields as one value.
Codec == [state |-> rx_state, pkt |-> rx_pkt, remain |-> rx_remain, hdr |-> rx_hdr]

\* StreamTransport.__init__
IdleCodec == [state |-> IND_NONE, pkt |-> NoPkt, remain |-> 0, hdr |-> FALSE]

\* ------------------------------------------------------------------- _rx
\* The body of `while(dlen)` of StreamTransport._rx, one iteration per
\* unfolding.  c is the codec, idx/dlen the locals.  The result is the codec
\* after the call, what the call did (ret: "None", "Pkt", or the exception
\* raised) and the packet returned.
RECURSIVE RxLoop(_, _, _, _)
RxLoop(c, data, idx, dlen) ==
    IF dlen = 0 THEN [c |-> c, ret |-> "None", pkt |-> NoPkt]
    ELSE
      LET copying == c.remain > 0
          clen == Min(c.remain, dlen)
          \* self._rx_pkt.data += data[idx:idx + clen]
          c1 == IF copying
                THEN [c EXCEPT !.pkt.data = @ \o SubSeq(data, idx + 1, idx + clen),
                               !.remain = @ - clen]
                ELSE c
          idx1 == IF copying THEN idx + clen ELSE idx
          dlen1 == IF copying THEN dlen - clen ELSE dlen
      IN  IF copying /\ c1.remain > 0
          THEN \* More bytes required
               [c |-> c1, ret |-> "None", pkt |-> NoPkt]
          ELSE IF c1.state = IND_NONE
          THEN LET ind == data[1]
                   c2 == [c1 EXCEPT !.state = ind]
               IN  IF ind = IND_ACL
                   THEN RxLoop([c2 EXCEPT !.pkt = HCIACLData,
                                          !.remain = header_len(HCIACLData)],
                               data, idx1 + 1, dlen1 - 1)
                   ELSE IF ind = IND_EVT
                   THEN RxLoop([c2 EXCEPT !.pkt = HCIEvt,
                                          !.remain = header_len(HCIEvt)],
                               data, idx1 + 1, dlen1 - 1)
                   ELSE [c |-> c2, ret |-> "RuntimeError", pkt |-> NoPkt]
          ELSE IF ~c1.hdr
          THEN \* Header complete, parse it
               IF c1.pkt = NoPkt
               THEN \* None.unpack_header()
                    [c |-> c1, ret |-> "AttributeError", pkt |-> NoPkt]
               ELSE RxLoop([c1 EXCEPT !.remain = payload_len(c1.pkt), !.hdr = TRUE],
                           data, idx1, dlen1)
          ELSE [c |-> [c1 EXCEPT !.pkt = NoPkt, !.state = IND_NONE, !.hdr = FALSE],
                ret |-> "Pkt", pkt |-> c1.pkt]

\* _rx with the partial packet forgotten between calls.
Rx_forgetful(c, data) == RxLoop(IdleCodec, data, 0, Len(data))

\* _rx that steps over a byte that is no inbound indicator.
Rx_skips_unknown(c, data) ==
    IF c.state = IND_NONE /\ data[1] \notin {IND_ACL, IND_EVT}
    THEN RxLoop(c, Tail(data), 0, Len(data) - 1)
    ELSE RxLoop(c, data, 0, Len(data))

\* StreamTransport._rx(data)
Rx(c, data) == RxLoop(c, data, 0, Len(data))

\* ------------------------------------------------------- inbound frames
\* The byte values used in headers (handle, event code) and payloads.
HdrBytes == {7}
PayBytes == {2, 4}
Payloads == UNION {[1..n -> PayBytes] : n \in 0..MaxPayload}

\* The wire encoding [indicator][header][payload] of an inbound frame.
EvtFrame(code, payload) == <<IND_EVT, code, Len(payload)>> \o payload
AclFrame(handle, payload) == <<IND_ACL, handle, 0, Len(payload), 0>> \o payload
ValidFrames == {EvtFrame(h, p) : h \in HdrBytes, p \in Payloads}
                 \cup {AclFrame(h, p) : h \in HdrBytes, p \in Payloads}

\* The packet a valid frame S encodes: S without its indicator byte.
PacketOf(S) == [kind |-> IF S[1] = IND_ACL THEN "ACL" ELSE "EVT", data |-> Tail(S)]
\* The payload length a valid frame's header declares.
DeclaredLen(S) == payload_len(PacketOf(S))

\* One frame, or two frames back to back.
Inputs == {<<f>> : f \in ValidFrames} \cup {<<f, g>> : f \in ValidFrames, g \in ValidFrames}

Stream == IF Len(input) = 1 THEN input[1] ELSE input[1] \o input[2]

\* ------------------------------------------------------ the tasks' state
Tasks == 1..NumTasks
NoCall == [id |-> 0, op |-> "none", arg |-> NoPkt]
NoRet == [id |-> 0, t |-> 0, op |-> "none", res |-> "none", arg |-> NoPkt]

\* The fields every specification starts from (the constructors).
InitCodecVars ==
    /\ rx_state = IND_NONE
    /\ rx_pkt = NoPkt
    /\ rx_remain = 0
    /\ rx_hdr = FALSE

InitHarness(inp) ==
    /\ input = inp
    /\ pos = 0
    /\ ncalls = 0
    /\ lastret = "none"
    /\ emitted = <<>>

\* UART.__init__ / UARToTCP.__init__
InitTransport(k) ==
    /\ kind = k
    /\ open = FALSE
    /\ closing = FALSE
    /\ baudrate = 0
    /\ rx_q = <<>>
    /\ tx_lock = 0
    /\ wire = <<>>
    /\ rx_thread = FALSE
    /\ exiting = 0
    /\ ready = <<>>
    /\ silent = FALSE
    /\ conns = 0
    /\ pc = [t \in Tasks |-> "idle"]
    /\ cur = [t \in Tasks |-> NoCall]
    /\ ret = NoRet
    /\ txd = [t \in Tasks |-> <<>>]
    /\ ncall = 0
    /\ nread = 0
    /\ completed = <<>>
    /\ delivered = <<>>

\* The codec takes the value c.
SetCodec(c) ==
    /\ rx_state' = c.state
    /\ rx_pkt' = c.pkt
    /\ rx_remain' = c.remain
    /\ rx_hdr' = c.hdr

\* ------------------------------------------------------------ transports
\* The packets callers hand to send(): a command, an ACL data packet and an
\* event (not a legal outbound variant).
OutPkts == {[kind |-> "CMD", data |-> <<5>>],
            [kind |-> "ACL", data |-> <<6>>],
            [kind |-> "EVT", data |-> <<9>>]}

\* The chunks a device read / data_received can deliver: whole frames, the
\* two halves of a frame, and a byte that is no inbound indicator.
InboundChunks == {EvtFrame(7, <<2>>), <<IND_EVT, 7>>, <<1, 2>>,
                  AclFrame(7, <<4>>), <<7>>}

\* The baudrate option of open(): absent, the reserved one, a usable one.
Bauds == {0, INIT_BAUDRATE, 115200}

\* _prepend_ind that gives every other variant the Event indicator.
prepend_ind_any(pkt) ==
    IF pkt.kind = "ACL" THEN [raised |-> FALSE, bytes |-> <<IND_ACL>> \o pkt.data]
    ELSE IF pkt.kind = "CMD" THEN [raised |-> FALSE, bytes |-> <<IND_CMD>> \o pkt.data]
    ELSE [raised |-> FALSE, bytes |-> <<IND_EVT>> \o pkt.data]

\* StreamTransport._prepend_ind(pkt): the bytes, or the exception raised by
\* the else branch (RuntimeException is no name of Python: a NameError).
prepend_ind(pkt) ==
    IF pkt.kind = "ACL" THEN [raised |-> FALSE, bytes |-> <<IND_ACL>> \o pkt.data]
    ELSE IF pkt.kind = "CMD" THEN [raised |-> FALSE, bytes |-> <<IND_CMD>> \o pkt.data]
    ELSE [raised |-> TRUE, bytes |-> <<>>]

\* send() and recv() without their state check.
NotOpen_unchecked == FALSE

\* `if not self._open` of send() and recv()
NotOpen == ~open

\* `if self._open or self._closing` of open()
OpenOrClosing == open \/ closing

\* The baudrate test with the reserved rate let through.
BadBaudrate_absent_only(baud) == baud = 0

\* `if not self._baudrate` and `if self._baudrate == UART.INIT_BAUDRATE`
BadBaudrate(baud) == baud = 0 \/ baud = INIT_BAUDRATE

\* A write section entered without regard to the lock.
locked_ignored == FALSE

\* asyncio.Lock.locked(), as `async with self._tx_lock` tests it
locked == tx_lock # 0

\* A queue that puts the newest item first.
rx_enq_front(q, item) == <<item>> \o q

\* asyncio.Queue.put_nowait(item), as UART._rx_enq and data_received call it
rx_enq(q, item) == Append(q, item)

\* The bytes of `frame` as send() call `id` puts them on the wire.
Tagged(id, frame) == [k \in 1..Len(frame) |-> [call |-> id, frame |-> frame, k |-> k]]

\* The record of an API call `op` started in this step, with its argument.
Call(op, arg) == [id |-> ncall + 1, op |-> op, arg |-> arg]

\* Task t is suspended inside `call`.
Suspend(t, call) == cur' = [cur EXCEPT ![t] = call] /\ UNCHANGED ret

\* Task t's `call` ends with `res` (a return or the exception raised),
\* returning `item` if it is a recv().
Return(t, call, res, item) ==
    /\ cur' = [cur EXCEPT ![t] = NoCall]
    /\ ret' = [id |-> call.id, t |-> t, op |-> call.op, res |-> res, arg |-> item]

\* A caller that is not inside a call may start one.
CanCall(t) == pc[t] = "idle" /\ ncall < MaxCalls

\* UART.open / UARToTCP.open up to its first suspension
OpenCall(t, baud) ==
    /\ CanCall(t)
    /\ ncall' = ncall + 1
    /\ silent' = FALSE
    /\ IF OpenOrClosing
       THEN /\ Return(t, Call("open", NoPkt), "EEXIST", NoPkt)
            /\ UNCHANGED <<open, baudrate, rx_thread, pc>>
       ELSE IF kind = "UART"
       THEN /\ baudrate' = baud
            /\ UNCHANGED pc
            /\ IF BadBaudrate(baud)
               THEN /\ Return(t, Call("open", NoPkt), "RuntimeError", NoPkt)
                    /\ UNCHANGED <<open, rx_thread>>
               ELSE \E ok \in BOOLEAN :
                      IF ok
                      THEN \* serial.Serial(dev) opened: start the reader thread
                           /\ open' = TRUE
                           /\ rx_thread' = TRUE
                           /\ Return(t, Call("open", NoPkt), "ok", NoPkt)
                      ELSE \* serial.SerialException
                           /\ Return(t, Call("open", NoPkt), "OSError", NoPkt)
                           /\ UNCHANGED <<open, rx_thread>>
       ELSE \* await self._loop.create_connection(...)
            /\ pc' = [pc EXCEPT ![t] = "open_conn"]
            /\ Suspend(t, Call("open", NoPkt))
            /\ UNCHANGED <<open, baudrate, rx_thread>>
    /\ UNCHANGED <<codecVars, harnessVars, kind, closing, rx_q, tx_lock, wire,
                   exiting, ready, conns, txd, nread, completed, delivered>>

\* UARToTCP.open resumed: the connection is made, self._open = True
OpenConnected(t) ==
    /\ pc[t] = "open_conn"
    /\ conns' = conns + 1
    /\ open' = TRUE
    /\ pc' = [pc EXCEPT ![t] = "idle"]
    /\ Return(t, cur[t], "ok", cur[t].arg)
    /\ silent' = FALSE
    /\ UNCHANGED <<codecVars, harnessVars, kind, closing, baudrate, rx_q, tx_lock,
                   wire, rx_thread, exiting, ready, txd, ncall, nread, completed,
                   delivered>>

\* UARToTCP.open resumed: create_connection raised
OpenConnFail(t) ==
    /\ pc[t] = "open_conn"
    /\ pc' = [pc EXCEPT ![t] = "idle"]
    /\ Return(t, cur[t], "OSError", cur[t].arg)
    /\ silent' = FALSE
    /\ UNCHANGED <<codecVars, harnessVars, kind, open, closing, baudrate, rx_q,
                   tx_lock, wire, rx_thread, exiting, ready, conns, txd, ncall,
                   nread, completed, delivered>>

\* UART.close / UARToTCP.close: `async with self._tx_lock():` calls the Lock
\* object, which is not callable, so the call raises TypeError before the
\* body runs (nothing of lines 133-138 / 208-214 is ever executed).
CloseCall(t) ==
    /\ CanCall(t)
    /\ ncall' = ncall + 1
    /\ Return(t, Call("close", NoPkt), "TypeError", NoPkt)
    /\ silent' = FALSE
    /\ UNCHANGED <<codecVars, harnessVars, kind, open, closing, baudrate, rx_q,
                   tx_lock, wire, rx_thread, exiting, ready, conns, pc, txd,
                   nread, completed, delivered>>

\* The body of `async with self._tx_lock` in send(), entered by task t whose
\* call record is `call`: encode, then write (UART: in the executor, byte by
\* byte; TCP: self._transport.write at once).
SendLocked(t, call) ==
    LET enc == prepend_ind(call.arg)
    IN  IF enc.raised
        THEN /\ tx_lock' = 0
             /\ pc' = [pc EXCEPT ![t] = "idle"]
             /\ Return(t, call, "NameError", call.arg)
             /\ UNCHANGED <<wire, txd>>
        ELSE IF kind = "UART"
        THEN /\ tx_lock' = t
             /\ pc' = [pc EXCEPT ![t] = "send_write"]
             /\ Suspend(t, call)
             /\ txd' = [txd EXCEPT ![t] = enc.bytes]
             /\ UNCHANGED wire
        ELSE /\ tx_lock' = 0
             /\ pc' = [pc EXCEPT ![t] = "idle"]
             /\ UNCHANGED txd
             /\ \E ok \in BOOLEAN :
                  IF ok
                  THEN /\ wire' = wire \o Tagged(call.id, enc.bytes)
                       /\ Return(t, call, "ok", call.arg)
                  ELSE /\ Return(t, call, "OSError", call.arg)
                       /\ UNCHANGED wire

\* UART.send / UARToTCP.send up to its first suspension
SendCall(t, p) ==
    /\ CanCall(t)
    /\ ncall' = ncall + 1
    /\ silent' = FALSE
    /\ IF NotOpen
       THEN /\ Return(t, Call("send", p), "ENODEV", p)
            /\ UNCHANGED <<tx_lock, pc, wire, txd>>
       ELSE IF locked \/ \E u \in Tasks : pc[u] = "send_lock"
       THEN \* Lock.acquire() suspends: the lock is held, or has waiters
            /\ pc' = [pc EXCEPT ![t] = "send_lock"]
            /\ Suspend(t, Call("send", p))
            /\ UNCHANGED <<tx_lock, wire, txd>>
       ELSE SendLocked(t, Call("send", p))
    /\ UNCHANGED <<codecVars, harnessVars, kind, open, closing, baudrate, rx_q,
                   rx_thread, exiting, ready, conns, nread, completed, delivered>>

\* send() resumed with the lock
SendAcquire(t) ==
    /\ pc[t] = "send_lock"
    /\ ~locked
    /\ SendLocked(t, cur[t])
    /\ silent' = FALSE
    /\ UNCHANGED <<codecVars, harnessVars, kind, open, closing, baudrate, rx_q,
                   rx_thread, exiting, ready, conns, ncall, nread, completed,
                   delivered>>

\* self._serial.write(txd) in the executor thread puts the next byte out
WriteByte(t) ==
    /\ pc[t] = "send_write"
    /\ txd[t] # <<>>
    /\ LET frame == prepend_ind(cur[t].arg).bytes
       IN  wire' = Append(wire, [call |-> cur[t].id, frame |-> frame,
                                 k |-> Len(frame) - Len(txd[t]) + 1])
    /\ txd' = [txd EXCEPT ![t] = Tail(@)]
    /\ UNCHANGED <<codecVars, harnessVars, kind, open, closing, baudrate, rx_q,
                   tx_lock, rx_thread, exiting, ready, silent, conns, pc, cur, ret,
                   ncall, nread, completed, delivered>>

\* The write is complete: UART.send resumes, leaves the `async with`, returns
WriteDone(t) ==
    /\ pc[t] = "send_write"
    /\ txd[t] = <<>>
    /\ tx_lock' = 0
    /\ pc' = [pc EXCEPT ![t] = "idle"]
    /\ Return(t, cur[t], "ok", cur[t].arg)
    /\ silent' = FALSE
    /\ UNCHANGED <<codecVars, harnessVars, kind, open, closing, baudrate, rx_q,
                   wire, rx_thread, exiting, ready, conns, txd, ncall, nread,
                   completed, delivered>>

\* The write raises serial.SerialException: UART.send raises OSError
WriteError(t) ==
    /\ pc[t] = "send_write"
    /\ tx_lock' = 0
    /\ pc' = [pc EXCEPT ![t] = "idle"]
    /\ Return(t, cur[t], "OSError", cur[t].arg)
    /\ txd' = [txd EXCEPT ![t] = <<>>]
    /\ silent' = FALSE
    /\ UNCHANGED <<codecVars, harnessVars, kind, open, closing, baudrate, rx_q,
                   wire, rx_thread, exiting, ready, conns, ncall, nread,
                   completed, delivered>>

\* UART.recv / UARToTCP.recv up to its first suspension: Queue.get() returns
\* at once when the queue holds an item, else the caller becomes a getter.
RecvCall(t) ==
    /\ CanCall(t)
    /\ ncall' = ncall + 1
    /\ silent' = FALSE
    /\ IF NotOpen
       THEN /\ Return(t, Call("recv", NoPkt), "ENODEV", NoPkt)
            /\ UNCHANGED <<rx_q, pc, delivered>>
       ELSE IF rx_q # <<>>
       THEN /\ Return(t, Call("recv", NoPkt), "ok", Head(rx_q))
            /\ rx_q' = Tail(rx_q)
            /\ delivered' = Append(delivered, Head(rx_q))
            /\ UNCHANGED pc
       ELSE /\ pc' = [pc EXCEPT ![t] = "recv_wait"]
            /\ Suspend(t, Call("recv", NoPkt))
            /\ UNCHANGED <<rx_q, delivered>>
    /\ UNCHANGED <<codecVars, harnessVars, kind, open, closing, baudrate, tx_lock,
                   wire, rx_thread, exiting, ready, conns, txd, nread, completed>>

\* recv() resumed by the event loop: the getter's future was set by a put
\* the loop has noticed; the call takes the head of the queue and returns it.
RecvResume(t) ==
    /\ pc[t] = "recv_wait"
    /\ rx_q # <<>>
    /\ ~silent
    /\ pc' = [pc EXCEPT ![t] = "idle"]
    /\ Return(t, cur[t], "ok", Head(rx_q))
    /\ rx_q' = Tail(rx_q)
    /\ delivered' = Append(delivered, Head(rx_q))
    /\ UNCHANGED <<codecVars, harnessVars, kind, open, closing, baudrate, tx_lock,
                   wire, rx_thread, exiting, ready, silent, conns, txd, ncall,
                   nread, completed>>

\* The event loop runs the oldest callback scheduled by call_soon_threadsafe:
\* UART._rx_enq(pkt)
RunReady ==
    /\ ready # <<>>
    /\ rx_q' = rx_enq(rx_q, Head(ready))
    /\ ready' = Tail(ready)
    /\ silent' = FALSE
    /\ UNCHANGED <<codecVars, harnessVars, kind, open, closing, baudrate, tx_lock,
                   wire, rx_thread, exiting, conns, pc, cur, ret, txd, ncall, nread,
                   completed, delivered>>

\* The reader thread leaves its loop: self._open = False (line 257)
LeaveLoop ==
    /\ rx_thread' = FALSE
    /\ open' = FALSE
    /\ exiting' = exiting + 1

\* One iteration of the loop of UART._rx_thread_fn: the read returns `chunk`
ReaderRead(chunk) ==
    /\ rx_thread
    /\ nread < MaxReads
    /\ nread' = nread + 1
    /\ IF open
       THEN LET r == Rx(Codec, chunk)
            IN  /\ SetCodec(r.c)
                /\ IF r.ret = "Pkt"
                   THEN \* self._loop.call_soon_threadsafe(self._rx_enq, pkt)
                        /\ ready' = Append(ready, r.pkt)
                        /\ completed' = Append(completed, r.pkt)
                        /\ UNCHANGED <<rx_thread, open, exiting>>
                   ELSE IF r.ret = "None"
                   THEN UNCHANGED <<ready, completed, rx_thread, open, exiting>>
                   ELSE \* except Exception: break
                        /\ LeaveLoop
                        /\ UNCHANGED <<ready, completed>>
       ELSE /\ LeaveLoop
            /\ UNCHANGED <<codecVars, ready, completed>>
    /\ UNCHANGED <<harnessVars, kind, closing, baudrate, rx_q, tx_lock, wire,
                   silent, conns, pc, cur, ret, txd, ncall, delivered>>

\* The blocking self._serial.read raises: except Exception: break
ReaderReadError ==
    /\ rx_thread
    /\ LeaveLoop
    /\ UNCHANGED <<codecVars, harnessVars, kind, closing, baudrate, rx_q, tx_lock,
                   wire, ready, silent, conns, pc, cur, ret, txd, ncall, nread,
                   completed, delivered>>

\* A reader thread that left its loop runs self._rx_enq(None) (line 259) in
\* its own thread.  The put is not sent through call_soon_threadsafe, so the
\* event loop is not woken for it: when the queue was empty, whether a
\* suspended getter is resumed depends on the loop running for another
\* reason (either outcome).  A getter already being resumed for an earlier
\* item stays so.
ReaderExit ==
    /\ exiting > 0
    /\ exiting' = exiting - 1
    /\ rx_q' = rx_enq(rx_q, NoPkt)
    /\ \E s \in BOOLEAN : silent' = IF rx_q = <<>> THEN s ELSE silent
    /\ UNCHANGED <<codecVars, harnessVars, kind, open, closing, baudrate, tx_lock,
                   wire, rx_thread, ready, conns, pc, cur, ret, txd, ncall, nread,
                   completed, delivered>>

\* TCPProtocol.data_received(chunk) on a live connection.  An exception of
\* _rx leaves the callback; the event loop then closes that connection and
\* calls connection_lost, which does nothing.
DataReceived(chunk) ==
    /\ kind = "TCP"
    /\ conns > 0
    /\ nread < MaxReads
    /\ nread' = nread + 1
    /\ silent' = FALSE
    /\ LET r == Rx(Codec, chunk)
       IN  /\ SetCodec(r.c)
           /\ IF r.ret = "Pkt"
              THEN /\ rx_q' = rx_enq(rx_q, r.pkt)
                   /\ completed' = Append(completed, r.pkt)
                   /\ UNCHANGED conns
              ELSE IF r.ret = "None"
              THEN UNCHANGED <<rx_q, completed, conns>>
              ELSE /\ conns' = conns - 1
                   /\ UNCHANGED <<rx_q, completed>>
    /\ UNCHANGED <<harnessVars, kind, open, closing, baudrate, tx_lock, wire,
                   rx_thread, exiting, ready, pc, cur, ret, txd, ncall, delivered>>

\* TCPProtocol.connection_lost(exc): pass
ConnectionLost ==
    /\ kind = "TCP"
    /\ conns > 0
    /\ conns' = conns - 1
    /\ silent' = FALSE
    /\ UNCHANGED <<codecVars, harnessVars, kind, open, closing, baudrate, rx_q,
                   tx_lock, wire, rx_thread, exiting, ready, pc, cur, ret, txd, ncall,
                   nread, completed, delivered>>

\* ------------------------------------------------------- specifications
Init ==
    /\ InitCodecVars
    /\ InitHarness(<<>>)
    /\ \E k \in {"UART", "TCP"} : InitTransport(k)

\* The steps the event loop, the executor and the reader thread take by
\* themselves once enabled.
Resume ==
    \/ \E t \in Tasks : OpenConnected(t)
    \/ \E t \in Tasks : SendAcquire(t)
    \/ \E t \in Tasks : WriteByte(t)
    \/ \E t \in Tasks : WriteDone(t)
    \/ \E t \in Tasks : RecvResume(t)
    \/ RunReady
    \/ ReaderExit

\* The steps callers, the device and the peer decide.
Environment ==
    \/ \E t \in Tasks, baud \in Bauds : OpenCall(t, baud)
    \/ \E t \in Tasks : OpenConnFail(t)
    \/ \E t \in Tasks : CloseCall(t)
    \/ \E t \in Tasks, p \in OutPkts : SendCall(t, p)
    \/ \E t \in Tasks : WriteError(t)
    \/ \E t \in Tasks : RecvCall(t)
    \/ \E chunk \in InboundChunks : ReaderRead(chunk)
    \/ ReaderReadError
    \/ \E chunk \in InboundChunks : DataReceived(chunk)
    \/ ConnectionLost

Next == Resume \/ Environment

Spec == Init /\ [][Next]_vars

\* The event loop runs every callback and every resumed task it has, the
\* executor finishes its writes and an exiting thread runs to its end.
FairSpec == Spec /\ WF_vars(Resume)

\* ------------------------------------------------------- the codec alone
\* A caller feeds the next n bytes of the stream to _rx as one chunk.
Feed(n) ==
    /\ pos + n <= Len(Stream)
    /\ LET r == Rx(Codec, SubSeq(Stream, pos + 1, pos + n))
       IN  /\ SetCodec(r.c)
           /\ lastret' = r.ret
           /\ emitted' = IF r.ret = "Pkt" THEN Append(emitted, r.pkt) ELSE emitted
    /\ pos' = pos + n
    /\ ncalls' = ncalls + 1
    /\ UNCHANGED <<input, transportVars>>

InitCodec ==
    /\ InitCodecVars
    /\ \E inp \in Inputs : InitHarness(inp)
    /\ InitTransport("UART")

NextCodec == \E n \in 1..(2 * (5 + MaxPayload)) : Feed(n)

SpecCodec == InitCodec /\ [][NextCodec]_vars

\* ------------------------------------------- the codec on arbitrary bytes
\* The byte values of a raw chunk: every indicator and a byte that is none.
RawBytes == {IND_NONE, IND_CMD, IND_ACL, IND_SCO, IND_EVT, 7}
\* The chunks handed to _rx: one byte or two.
RawChunks == {<<a>> : a \in RawBytes} \cup {<<a, b>> : a \in RawBytes, b \in RawBytes}

\* A caller (the reader loop, data_received) hands `chunk` to _rx; `input`
\* keeps the chunk of the last call.
RawFeed(chunk) ==
    /\ ncalls < MaxRawCalls
    /\ LET r == Rx(Codec, chunk)
       IN  /\ SetCodec(r.c)
           /\ lastret' = r.ret
           /\ emitted' = IF r.ret = "Pkt" THEN Append(emitted, r.pkt) ELSE emitted
    /\ input' = <<chunk>>
    /\ ncalls' = ncalls + 1
    /\ UNCHANGED <<pos, transportVars>>

InitRaw ==
    /\ InitCodecVars
    /\ InitHarness(<<>>)
    /\ InitTransport("TCP")

NextRaw == \E chunk \in RawChunks : RawFeed(chunk)

SpecRaw == InitRaw /\ [][NextRaw]_vars

\* --------------------------------------------------- claims on the codec
\* What feeding the whole stream to an idle codec as one chunk gives.
Whole == Rx(IdleCodec, Stream)
WholeEmitted == IF Whole.ret = "Pkt" THEN <<Whole.pkt>> ELSE <<>>

\* C1: one _rx call on an idle codec with the whole of a valid frame S as
\* its chunk returns the packet S encodes (S without its indicator byte) and
\* leaves the codec idle, whatever payload length the header declares.
C1_WholeFrameOnePacket ==
    (ncalls = 1 /\ pos = Len(input[1]))
        => (emitted = <<PacketOf(input[1])>> /\ Codec = IdleCodec)

\* C1 restricted to the frames whose header declares a non-empty payload.
C1_NonEmptyPayload ==
    (ncalls = 1 /\ pos = Len(input[1]) /\ DeclaredLen(input[1]) > 0)
        => (emitted = <<PacketOf(input[1])>> /\ Codec = IdleCodec)

\* C2: two valid frames fed to an idle codec as a single chunk produce both
\* packets, in wire order.
C2_TwoFramesOneChunk ==
    (Len(input) = 2 /\ ncalls = 1 /\ pos = Len(Stream))
        => emitted = <<PacketOf(input[1]), PacketOf(input[2])>>

\* C3: however a valid frame is split into contiguous non-empty fragments,
\* feeding the fragments in order to an idle codec produces the same packets
\* as feeding the frame as one chunk (and leaves the codec in the same state).
C3_FragmentationIndependent ==
    (Len(input) = 1 /\ pos = Len(Stream))
        => (emitted = WholeEmitted /\ Codec = Whole.c)

\* C3's case: a frame fed in three or more fragments has produced its packet.
C3_Witness ==
    /\ Len(input) = 1
    /\ pos = Len(Stream)
    /\ ncalls >= 3
    /\ emitted = <<PacketOf(input[1])>>

\* ----------------------------------------------- claims on the transports
IsPrefix(a, b) == Len(a) <= Len(b) /\ SubSeq(b, 1, Len(a)) = a
IsPacket(item) == item # NoPkt
Waiting(t) == pc[t] = "recv_wait"

\* Task t starts the API call `op` in this step.
Started(t, op) ==
    /\ ncall' = ncall + 1
    /\ IF cur'[t].id = ncall + 1
       THEN cur'[t].op = op
       ELSE ret'.id = ncall + 1 /\ ret'.t = t /\ ret'.op = op

\* C4: the packets returned by successive recv() calls are, in order, a
\* prefix of the packets the codec completed: no reordering, no duplication.
C4_DeliveredInCompletionOrder ==
    IsPrefix(SelectSeq(delivered, IsPacket), completed)

\* C4's case: two different packets were completed and both were returned.
C4_Witness ==
    /\ Len(delivered) = 2
    /\ IsPacket(delivered[1]) /\ IsPacket(delivered[2])
    /\ delivered[1] # delivered[2]

\* C5: the bytes on the wire are, send() call by send() call, contiguous runs
\* in frame order; a call that returned normally has its complete frame on
\* the wire; at most one sender is inside the write section, and the write
\* lock is held exactly while a sender is inside it.
C5_SendsNeverInterleave ==
    /\ \A i \in DOMAIN wire :
         wire[i].k > 1 =>
            /\ i > 1
            /\ wire[i - 1].call = wire[i].call
            /\ wire[i - 1].k = wire[i].k - 1
    /\ \A i, j \in DOMAIN wire :
         (wire[i].call = wire[j].call /\ wire[i].k = wire[j].k) => i = j
    /\ (ret.op = "send" /\ ret.res = "ok") =>
          \E i \in DOMAIN wire :
             /\ wire[i].call = ret.id
             /\ wire[i].frame = prepend_ind(ret.arg).bytes
             /\ wire[i].k = Len(wire[i].frame)
    /\ Cardinality({t \in Tasks : pc[t] = "send_write"}) <= 1
    /\ \A t \in Tasks : pc[t] = "send_write" <=> tx_lock = t

\* C5's case: one sender is writing while another waits for the lock.
C5_Witness ==
    \E t, u \in Tasks :
       /\ pc[t] = "send_write" /\ wire # <<>>
       /\ pc[u] = "send_lock"

\* C6: close() called while a recv() is suspended on the empty queue makes
\* that recv() return end-of-transport.  (Stated as what the claim implies:
\* the recv() does not stay suspended.)
C6_CloseReleasesReceiver ==
    \A t \in Tasks :
       (Waiting(t) /\ rx_q = <<>> /\ ret.op = "close" /\ ret.id > cur[t].id)
          ~> ~Waiting(t)

\* C7: close() on an Open serial transport with nothing pending and a reader
\* thread blocked in its read completes: the thread has terminated, close()
\* has returned and the transport is Closed.
C7_CloseCompletes ==
    (/\ kind = "UART" /\ open /\ rx_thread
     /\ ret.op = "close" /\ ret.id = ncall
     /\ rx_q = <<>> /\ ready = <<>>
     /\ \A u \in Tasks : pc[u] = "idle")
       ~> (/\ ret.op = "close" /\ ret.res = "ok"
           /\ ~open /\ ~closing /\ ~rx_thread)

\* C8: once the serial reader loop has hit a fault (the loop has stopped and
\* the state is Closed), a recv() that is the only one suspended on the
\* empty queue returns.  (Stated as what the claim implies: the recv() does
\* not stay suspended, unless the transport is opened again first.)
C8_FaultReleasesReceiver ==
    \A t \in Tasks :
       (/\ kind = "UART" /\ ~open /\ exiting > 0
        /\ Waiting(t) /\ rx_q = <<>>
        /\ \A u \in Tasks \ {t} : ~Waiting(u))
          ~> (~Waiting(t) \/ open)

\* C9: on the network transport a recv() suspended on the empty queue when
\* the receive path has faulted (no live connection is left) returns
\* end-of-transport.  (Stated as what the claim implies: the recv() does not
\* stay suspended.)
C9_TcpFaultReleasesReceiver ==
    \A t \in Tasks :
       (/\ kind = "TCP" /\ open /\ conns = 0
        /\ Waiting(t) /\ rx_q = <<>>
        /\ \A u \in Tasks : pc[u] # "open_conn")
          ~> ~Waiting(t)

\* What C10 says a refused call leaves alone.
C10_Untouched ==
    UNCHANGED <<open, closing, baudrate, rx_q, ready, codecVars, wire, tx_lock,
                txd, rx_thread, exiting, conns, pc>>

\* C10: send() and recv() on a transport that is not Open, and open() on one
\* that is Open or Closing, fail at once (ENODEV, EEXIST) and change nothing.
C10_RefusedCallsChangeNothing ==
    [][\A t \in Tasks :
         /\ ((Started(t, "send") \/ Started(t, "recv")) /\ ~open)
               => (ret'.id = ncall + 1 /\ ret'.res = "ENODEV" /\ C10_Untouched)
         /\ (Started(t, "open") /\ (open \/ closing))
               => (ret'.id = ncall + 1 /\ ret'.res = "EEXIST" /\ C10_Untouched)]_vars

\* C10's case: a recv() was refused on a transport that a reader fault had
\* closed, with the marker left in the queue.
C10_Witness ==
    /\ ret.op = "recv" /\ ret.res = "ENODEV"
    /\ ~open /\ rx_q = <<NoPkt>>

\* What C11 says a rejected open() has not done: no device opened or read,
\* no reader thread started, the transport still Closed.
C11_NoDeviceIO ==
    UNCHANGED <<open, closing, rx_thread, exiting, rx_q, ready, codecVars, wire,
                nread, conns, pc>>

\* C11: open() on a Closed serial transport with the baudrate option absent
\* or equal to INIT_BAUDRATE (9600) fails with the configuration error
\* (RuntimeError) at once, before the device is opened: the outcome is not
\* one of the device open (success or OSError), no reader thread is started
\* and the transport stays Closed.
C11_BadBaudrateFailsBeforeIO ==
    [][\A t \in Tasks :
         (/\ Started(t, "open") /\ kind = "UART" /\ ~open /\ ~closing
          /\ baudrate' \in {0, INIT_BAUDRATE})
            => (/\ ret'.id = ncall + 1 /\ ret'.res = "RuntimeError"
                /\ C11_NoDeviceIO)]_vars

\* C11's case: an open() at the reserved baud rate was rejected and the
\* transport is Closed with no reader thread.
C11_Witness ==
    /\ ret.op = "open" /\ ret.res = "RuntimeError"
    /\ baudrate = INIT_BAUDRATE
    /\ ~open /\ ~rx_thread /\ exiting = 0

\* C12: an _rx call made on an idle codec with a chunk whose first byte is
\* not the ACLData (2) or Event (4) indicator raises an error and returns no
\* packet, so its caller pushes nothing to the packet queue.
C12_InvalidIndicatorFails ==
    [][(/\ ncalls' = ncalls + 1
        /\ rx_state = IND_NONE
        /\ input'[1][1] \notin {IND_ACL, IND_EVT})
          => (lastret' = "RuntimeError" /\ emitted' = emitted)]_vars

\* C12's case: after a packet was decoded, a chunk starting with the Command
\* indicator met the idle codec and the call raised.
C12_Witness ==
    /\ emitted # <<>>
    /\ input = <<<<IND_CMD>>>>
    /\ lastret = "RuntimeError"
    /\ rx_state = IND_CMD

\* The frame C13 expects on the wire for an outbound packet.
C13_Frame(p) == <<IF p.kind = "CMD" THEN 1 ELSE 2>> \o p.data

\* C13: _prepend_ind gives a Command packet the prefix 1 and an ACLData
\* packet the prefix 2, one byte, before the packet's bytes; for any other
\* variant it raises and gives no bytes.  In send(): every byte put on the
\* wire belongs to the frame of a Command or ACLData packet of a send() call
\* in progress, and a send() of another variant ends with an error having
\* written nothing.
C13_EncodePrefixesIndicator ==
    [][/\ \A p \in OutPkts :
            IF p.kind \in {"CMD", "ACL"}
            THEN prepend_ind(p) = [raised |-> FALSE, bytes |-> C13_Frame(p)]
            ELSE prepend_ind(p).raised /\ prepend_ind(p).bytes = <<>>
       /\ \A i \in (Len(wire) + 1)..Len(wire') :
            \E p \in OutPkts :
               /\ p.kind \in {"CMD", "ACL"}
               /\ wire'[i].frame = C13_Frame(p)
               /\ \/ \E t \in Tasks : cur[t] = [id |-> wire'[i].call, op |-> "send", arg |-> p]
                  \/ /\ ret'.id = wire'[i].call /\ ret'.op = "send" /\ ret'.arg = p
                     /\ ret'.id = ncall + 1
       /\ (ret' # ret /\ ret'.op = "send" /\ ret'.arg.kind \notin {"CMD", "ACL"})
             => /\ ret'.res \in {"ENODEV", "NameError"}
                /\ wire' = wire
                /\ \A i \in DOMAIN wire : wire[i].call # ret'.id]_vars

\* C13's case: on an Open transport with a frame already written, a send()
\* of an Event packet failed in the encoder.
C13_Witness ==
    /\ open /\ wire # <<>>
    /\ ret.op = "send" /\ ret.arg.kind = "EVT" /\ ret.res = "NameError"

\* C14: once the transport is Closed (torn down by close() or by a reader
\* fault, no reader loop running) the codec holds no partial packet, so the
\* first byte after the next open() is taken as an indicator.
C14_ClosedCodecHoldsNoPacket ==
    (~open /\ ~closing /\ ~rx_thread) => (rx_pkt = NoPkt /\ rx_remain = 0)

\* C15: a send() that passed its Open check and is suspended on the write
\* lock does not perform its write once the transport has left Open: it does
\* not enter the write section and none of its bytes reach the wire.
C15_NoWriteAfterLeavingOpen ==
    [][\A t \in Tasks :
         (pc[t] = "send_lock" /\ ~open)
            => /\ pc'[t] # "send_write"
               /\ \A i \in (Len(wire) + 1)..Len(wire') : wire'[i].call # cur[t].id]_vars

\* C16: on the serial transport, once the reader thread has stopped and put
\* its shutdown marker in the packet queue, none of the packets it handed
\* over with call_soon_threadsafe is still on its way to the queue: every
\* one of them was placed ahead of the marker.
C16_MarkerNeverOvertakes ==
    (kind = "UART" /\ ~rx_thread /\ exiting = 0) => ready = <<>>

\* C17: close() called on an Open transport whose packet queue still holds
\* undelivered items, with no recv() pending, completes: it returns normally
\* and the transport is Closed.
C17_CloseCompletesWithQueuedItems ==
    (/\ open /\ rx_q # <<>>
     /\ ret.op = "close" /\ ret.id = ncall
     /\ \A u \in Tasks : pc[u] = "idle")
       ~> (ret.op = "close" /\ ret.res = "ok" /\ ~open /\ ~closing)

\* C18: a transport starts every Open session with an empty packet queue:
\* when an open() succeeds, the queue holds no item (packet or marker) of an
\* earlier session for the first recv() to return.
C18_OpenStartsWithEmptyQueue ==
    [][(ret'.id # ret.id /\ ret'.op = "open" /\ ret'.res = "ok") => rx_q' = <<>>]_vars

\* C19: on the network transport at most one open() is in connection
\* establishment at a time (a second caller is refused with EEXIST) and at
\* most one connection is ever established for the instance.
C19_AtMostOneConnection ==
    kind = "TCP" =>
       /\ Cardinality({t \in Tasks : pc[t] = "open_conn"}) <= 1
       /\ conns <= 1

\* C20: between _rx calls, also after a call that failed on an invalid
\* indicator, the codec's frame state is idle, ACLData or Event, and it is
\* non-idle exactly when a packet object is in flight.
C20_CodecStateConsistent ==
    /\ rx_state \in {IND_NONE, IND_ACL, IND_EVT}
    /\ rx_state # IND_NONE <=> rx_pkt # NoPkt

====
